---------------------------- MODULE Spec2Model ----------------------------
(***************************************************************************)
(* Numerical core of manim_scenes.py: the three Poincare-section crossing  *)
(* detectors, the Van der Pol return map, the Henon map iteration, the     *)
(* Henon fixed points and their stability labels, the integrate functions, *)
(* the sweeps over them and two calls running side by side.                *)
(*                                                                         *)
(* Numbers.  Samples are integers counted in grid units of 0.25e-10, so    *)
(* the code's epsilon 1e-10 is EpsUnits = 4 units.  A quotient is kept as  *)
(* an exact fraction <<n, d>> in lowest terms with d > 0; floating-point   *)
(* rounding is not modelled, the arithmetic is the exact one.              *)
(***************************************************************************)
EXTENDS Integers, Sequences, FiniteSets, TLC

VARIABLES fn, pc, xs, ys, zs, section_axis, section_value, direction,
          z_section, i, crossings, return_map,
          a, b, x0, y0, x, y, n_iter, n_transient, it,
          fixed_pts, fx, eig1, eig2, stab_str,
          t_span, n_points, sol, t_eval, xy,
          sweep_i, all_results,
          frame,
          state, t_arg, params, derivs,
          runs, all_crossings, all_return_map,
          trajectory_data, time_tracker, last_sign, switch_count,
          rho_tracker, regime_text, equilibria

vars == <<fn, pc, xs, ys, zs, section_axis, section_value, direction,
          z_section, i, crossings, return_map,
          a, b, x0, y0, x, y, n_iter, n_transient, it,
          fixed_pts, fx, eig1, eig2, stab_str,
          t_span, n_points, sol, t_eval, xy,
          sweep_i, all_results,
          frame,
          state, t_arg, params, derivs,
          runs, all_crossings, all_return_map,
          trajectory_data, time_tracker, last_sign, switch_count,
          rho_tracker, regime_text, equilibria>>

detectorVars == <<section_axis, section_value, direction, z_section,
                  i, crossings, return_map>>
henonVars == <<a, b, x0, y0, x, y, n_iter, n_transient, it>>
\* the variables of the fixed-point and stability computations
sceneVars == <<fixed_pts, fx, eig1, eig2, stab_str>>
\* the variables of the integrate functions, of the sweeps over them and of
\* two calls running side by side
integVars == <<t_span, n_points, sol, t_eval, xy>>
sweepVars == <<sweep_i, all_results>>
parVars == <<frame>>
\* the variables of a vector-field call, of the gathering of the Van der Pol
\* return maps, of the wing-switch counter and of the rho displays
fieldVars == <<state, t_arg, params, derivs>>
gatherVars == <<runs, all_crossings, all_return_map>>
switchVars == <<trajectory_data, time_tracker, last_sign, switch_count>>
rhoVars == <<rho_tracker, regime_text, equilibria>>
lateVars == <<fieldVars, gatherVars, switchVars, rhoVars>>
extVars == <<sceneVars, integVars, sweepVars, parVars, lateVars>>

-----------------------------------------------------------------------------
(* Bounds of the model *)

\* longest sample array handed to compute_poincare_crossings and
\* compute_rossler_poincare
MaxLen == 4
\* largest n_points of compute_vdp_poincare_map
MaxPoints == 6
\* largest n_transient and n_iter of iterate_henon
MaxTransient == 2
MaxIter == 2
\* largest finite magnitude of the (scaled) floating-point range
FloatMax == 1000

\* 1e-10 in grid units of 0.25e-10
EpsUnits == 4

\* the samples a trajectory is made of: <<section coordinate, the two other
\* coordinates>>, in grid units
SampleSet == {<<-3, <<-7, 4>>>>, <<-1, <<1, 0>>>>, <<0, <<1, 0>>>>,
              <<2, <<-3, 4>>>>, <<3, <<5, 2>>>>}
Thresholds == {-1, 0}

SeqsUpTo(S, n) == UNION {[1..k -> S] : k \in 0..n}

-----------------------------------------------------------------------------
(* Exact arithmetic *)

Abs(v) == IF v < 0 THEN -v ELSE v

RECURSIVE GCD(_, _)
GCD(m, n) == IF n = 0 THEN m ELSE GCD(n, m % n)

\* the fraction n/d, d # 0, in lowest terms with a positive denominator
Rat(n, d) ==
    LET g == GCD(Abs(n), Abs(d))
        s == IF d < 0 THEN -1 ELSE 1
    IN  <<(s * n) \div g, (s * d) \div g>>

RatOf(k) == <<k, 1>>
RatAdd(p, q) == Rat(p[1] * q[2] + q[1] * p[2], p[2] * q[2])
RatMul(p, q) == Rat(p[1] * q[1], p[2] * q[2])
RatLess(p, q) == p[1] * q[2] < q[1] * p[2]
Half == Rat(1, 2)

\* Python's s[k] on a 1-based sequence
At(s, k) == s[k + 1]

\* the interpolation stepping away from the later sample
InterpolateBackward(p, t_frac, q) ==
    RatAdd(RatOf(p), RatMul(t_frac, RatOf(p - q)))

\* the interpolation started from the later sample
InterpolateFromUpper(p, t_frac, q) ==
    RatAdd(RatOf(q), RatMul(t_frac, RatOf(q - p)))

\* p + t_frac * (q - p)
Interpolate(p, t_frac, q) == RatAdd(RatOf(p), RatMul(t_frac, RatOf(q - p)))

-----------------------------------------------------------------------------
(* compute_poincare_crossings(xs, ys, zs, z_section) *)

\* the test with the upper sample excluded
PoincareTestStrict(prev, sec, cur) == prev < sec /\ sec < cur

\* the test with both samples included
PoincareTestInclusive(prev, sec, cur) == prev <= sec /\ sec <= cur

\* zs[i-1] < z_section <= zs[i]
PoincareTest(prev, sec, cur) == prev < sec /\ sec <= cur

\* t_frac = (z_section - zs[i-1]) / (zs[i] - zs[i-1]), no epsilon guard
PoincareFrac(prev, sec, cur) == Rat(sec - prev, cur - prev)

PoincareCrossing(k) ==
    LET t_frac == PoincareFrac(At(zs, k - 1), z_section, At(zs, k))
    IN  <<Interpolate(At(xs, k - 1), t_frac, At(xs, k)),
          Interpolate(At(ys, k - 1), t_frac, At(ys, k)),
          RatOf(z_section)>>

\* an append that skips a crossing state already in the list
RegisterUnique(cr, c) ==
    IF \E j \in 1..Len(cr) : cr[j] = c THEN cr ELSE Append(cr, c)

\* crossings.append(c)
Register(cr, c) == Append(cr, c)

\* one pass of the loop `for i in range(1, len(zs))`
PoincareIter ==
    /\ fn = "compute_poincare_crossings" /\ pc = "loop"
    /\ i < Len(zs)
    /\ crossings' = IF PoincareTest(At(zs, i - 1), z_section, At(zs, i))
                    THEN Register(crossings, PoincareCrossing(i))
                    ELSE crossings
    /\ i' = i + 1
    /\ UNCHANGED <<fn, pc, xs, ys, zs, section_axis, section_value, direction,
                   z_section, return_map, henonVars, extVars>>

PoincareReturn ==
    /\ fn = "compute_poincare_crossings" /\ pc = "loop"
    /\ i >= Len(zs)
    /\ pc' = "done"
    /\ UNCHANGED <<fn, xs, ys, zs, detectorVars, henonVars, extVars>>

-----------------------------------------------------------------------------
(* compute_rossler_poincare(xs, ys, zs, section_axis, section_value,       *)
(* direction)                                                              *)

values ==
    IF section_axis = "y" THEN ys
    ELSE IF section_axis = "x" THEN xs
    ELSE zs

\* the downward test inclusive on the earlier sample
RosslerTestEarlierInclusive(dir, prev, sec, cur) ==
    IF dir = "positive"
    THEN prev < sec /\ sec <= cur
    ELSE prev >= sec /\ sec > cur

\* a third branch that scans both ways for 'either'
RosslerTestBothWays(dir, prev, sec, cur) ==
    IF dir = "positive"
    THEN prev < sec /\ sec <= cur
    ELSE IF dir = "either"
         THEN (prev < sec /\ sec <= cur) \/ (prev > sec /\ sec >= cur)
         ELSE prev > sec /\ sec >= cur

\* the test with both samples included
RosslerTestInclusive(dir, prev, sec, cur) ==
    IF dir = "positive"
    THEN prev <= sec /\ sec <= cur
    ELSE prev >= sec /\ sec >= cur

\* 'positive' scans upward; every other direction string scans downward
RosslerTest(dir, prev, sec, cur) ==
    IF dir = "positive"
    THEN prev < sec /\ sec <= cur
    ELSE prev > sec /\ sec >= cur

RosslerFrac(prev, sec, cur) ==
    IF Abs(cur - prev) > EpsUnits
    THEN Rat(sec - prev, cur - prev)
    ELSE Half

RosslerCrossing(k) ==
    LET t_frac == RosslerFrac(At(values, k - 1), section_value, At(values, k))
    IN  <<Interpolate(At(xs, k - 1), t_frac, At(xs, k)),
          Interpolate(At(ys, k - 1), t_frac, At(ys, k)),
          Interpolate(At(zs, k - 1), t_frac, At(zs, k))>>

RosslerIter ==
    /\ fn = "compute_rossler_poincare" /\ pc = "loop"
    /\ i < Len(values)
    /\ LET crossing == RosslerTest(direction, At(values, i - 1),
                                   section_value, At(values, i))
       IN  crossings' = IF crossing
                        THEN Register(crossings, RosslerCrossing(i))
                        ELSE crossings
    /\ i' = i + 1
    /\ UNCHANGED <<fn, pc, xs, ys, zs, section_axis, section_value, direction,
                   z_section, return_map, henonVars, extVars>>

RosslerReturn ==
    /\ fn = "compute_rossler_poincare" /\ pc = "loop"
    /\ i >= Len(values)
    /\ pc' = "done"
    /\ UNCHANGED <<fn, xs, ys, zs, detectorVars, henonVars, extVars>>

-----------------------------------------------------------------------------
(* compute_vdp_poincare_map: xs, ys are the samples integrate_van_der_pol  *)
(* returned                                                                *)

\* ys[i-1] < 0 and ys[i] >= 0
VdpPrimaryTest(prev, cur) == prev < 0 /\ cur >= 0

\* ... and xs[i] > 0: the sample after the crossing, not the crossing state
VdpTest(k) == VdpPrimaryTest(At(ys, k - 1), At(ys, k)) /\ At(xs, k) > 0

VdpCrossing(k) ==
    IF Abs(At(ys, k) - At(ys, k - 1)) > EpsUnits
    THEN LET t_frac == Rat(-At(ys, k - 1), At(ys, k) - At(ys, k - 1))
         IN  Interpolate(At(xs, k - 1), t_frac, At(xs, k))
    ELSE RatOf(At(xs, k))

\* the pairing run over range(len(crossings)), wrapping around
ReturnMapWrapped(cr) ==
    [j \in 1..Len(cr) |-> <<cr[j], cr[(j % Len(cr)) + 1]>>]

\* the pairs with their two elements exchanged
ReturnMapSwapped(cr) == [j \in 1..(Len(cr) - 1) |-> <<cr[j + 1], cr[j]>>]

\* [(crossings[i], crossings[i+1]) for i in range(len(crossings)-1)]
ReturnMap(cr) == [j \in 1..(Len(cr) - 1) |-> <<cr[j], cr[j + 1]>>]

VdpIter ==
    /\ fn = "compute_vdp_poincare_map" /\ pc = "loop"
    /\ i < Len(ys)
    /\ crossings' = IF VdpTest(i)
                    THEN Register(crossings, VdpCrossing(i))
                    ELSE crossings
    /\ i' = i + 1
    /\ UNCHANGED <<fn, pc, xs, ys, zs, section_axis, section_value, direction,
                   z_section, return_map, henonVars, extVars>>

VdpReturn ==
    /\ fn = "compute_vdp_poincare_map" /\ pc = "loop"
    /\ i >= Len(ys)
    /\ return_map' = ReturnMap(crossings)
    /\ pc' = "done"
    /\ UNCHANGED <<fn, xs, ys, zs, section_axis, section_value, direction,
                   z_section, i, crossings, henonVars, extVars>>

-----------------------------------------------------------------------------
(* The calls: every detector on every sample array within the bounds *)

Samples(n) == SeqsUpTo(SampleSet, n)
SecCol(smp) == [k \in 1..Len(smp) |-> smp[k][1]]
Oth1Col(smp) == [k \in 1..Len(smp) |-> smp[k][2][1]]
Oth2Col(smp) == [k \in 1..Len(smp) |-> smp[k][2][2]]

\* the calls that are not running hold nothing
SceneIdle ==
    /\ fixed_pts = <<>> /\ fx = 0 /\ eig1 = 0 /\ eig2 = 0 /\ stab_str = ""

IntegIdle ==
    /\ t_span = <<0, 0>> /\ n_points = 0 /\ sol = <<>> /\ t_eval = <<>>
    /\ xy = <<>>
SweepIdle == sweep_i = 0 /\ all_results = <<>>
ParIdle == frame = <<>>

FieldIdle == state = <<>> /\ t_arg = 0 /\ params = <<>> /\ derivs = <<>>
GatherIdle == runs = <<>> /\ all_crossings = <<>> /\ all_return_map = <<>>
SwitchIdle ==
    /\ trajectory_data = <<>> /\ time_tracker = 0
    /\ last_sign = 0 /\ switch_count = 0
RhoIdle == rho_tracker = 0 /\ regime_text = "" /\ equilibria = {}
LateIdle == FieldIdle /\ GatherIdle /\ SwitchIdle /\ RhoIdle

ExtIdle == SceneIdle /\ IntegIdle /\ SweepIdle /\ ParIdle /\ LateIdle

HenonIdle ==
    /\ a = 0 /\ b = 0 /\ x0 = 0 /\ y0 = 0 /\ x = 0 /\ y = 0
    /\ n_iter = 0 /\ n_transient = 0 /\ it = 0

InitPoincare ==
    /\ fn = "compute_poincare_crossings"
    /\ \E smp \in Samples(MaxLen) :
         /\ xs = Oth1Col(smp)
         /\ ys = Oth2Col(smp)
         /\ zs = SecCol(smp)
    /\ z_section \in Thresholds
    /\ section_axis = "z" /\ section_value = 0 /\ direction = "positive"

InitRossler ==
    /\ fn = "compute_rossler_poincare"
    /\ section_axis \in {"x", "y", "z"}
    /\ section_value \in Thresholds
    /\ direction \in {"positive", "negative", "either"}
    /\ \E smp \in Samples(MaxLen) :
         /\ xs = IF section_axis = "x" THEN SecCol(smp) ELSE Oth1Col(smp)
         /\ ys = IF section_axis = "y" THEN SecCol(smp)
                 ELSE IF section_axis = "x" THEN Oth1Col(smp) ELSE Oth2Col(smp)
         /\ zs = IF section_axis = "z" THEN SecCol(smp) ELSE Oth2Col(smp)
    /\ z_section = 0

InitVdp ==
    /\ fn = "compute_vdp_poincare_map"
    /\ \E smp \in Samples(MaxPoints) :
         /\ xs = Oth1Col(smp)
         /\ ys = SecCol(smp)
    /\ zs = <<>>
    /\ section_axis = "y" /\ section_value = 0 /\ direction = "positive"
    /\ z_section = 0

Init ==
    /\ InitPoincare \/ InitRossler \/ InitVdp
    /\ pc = "loop" /\ i = 1 /\ crossings = <<>> /\ return_map = <<>>
    /\ HenonIdle
    /\ ExtIdle

Next ==
    \/ PoincareIter
    \/ PoincareReturn
    \/ RosslerIter
    \/ RosslerReturn
    \/ VdpIter
    \/ VdpReturn

Spec == Init /\ [][Next]_vars

-----------------------------------------------------------------------------
(* Floating-point range.  A finite value is an integer of magnitude at     *)
(* most FloatMax; PosInf, NegInf and NaN stand for inf, -inf and nan.      *)

PosInf == FloatMax + 1
NegInf == -(FloatMax + 1)
NaN == FloatMax + 2

IsFinite(v) == -FloatMax <= v /\ v <= FloatMax
IsInf(v) == v = PosInf \/ v = NegInf

\* an exact result brought back into the range: overflow gives +-inf
FRound(v) ==
    IF v > FloatMax THEN PosInf
    ELSE IF v < -FloatMax THEN NegInf
    ELSE v

FNeg(v) == IF v = NaN THEN NaN ELSE -v

FMul(p, q) ==
    IF p = NaN \/ q = NaN THEN NaN
    ELSE IF IsInf(p) \/ IsInf(q)
         THEN IF p = 0 \/ q = 0 THEN NaN
              ELSE IF (p > 0) = (q > 0) THEN PosInf ELSE NegInf
    ELSE FRound(p * q)

FAdd(p, q) ==
    IF p = NaN \/ q = NaN THEN NaN
    ELSE IF IsInf(p) /\ IsInf(q) THEN (IF p = q THEN p ELSE NaN)
    ELSE IF IsInf(p) THEN p
    ELSE IF IsInf(q) THEN q
    ELSE FRound(p + q)

\* x**2 on a Python float raises OverflowError when the square of a finite
\* x leaves the range; the square of inf is inf
PowRaises(v) == IsFinite(v) /\ v * v > FloatMax
FSquare(v) ==
    IF v = NaN THEN NaN
    ELSE IF IsInf(v) THEN PosInf
    ELSE v * v

-----------------------------------------------------------------------------
(* henon_map and iterate_henon(a, b, x0, y0, n_iter, n_transient) *)

\* the map with y updated from the new x
henon_map_sequential(px, py, pa, pb) ==
    LET x_new == FAdd(FAdd(1, FNeg(FMul(pa, FSquare(px)))), py)
    IN  <<x_new, FMul(pb, x_new)>>

\* x_new = 1 - a * x**2 + y ;  y_new = b * x   (both from the old x, y)
henon_map(px, py, pa, pb) ==
    <<FAdd(FAdd(1, FNeg(FMul(pa, FSquare(px)))), py), FMul(pb, px)>>

\* for _ in range(n_transient): x, y = henon_map(x, y, a, b)
HenonTransientIter ==
    /\ fn = "iterate_henon" /\ pc = "transient"
    /\ it < n_transient
    /\ IF PowRaises(x)
       THEN pc' = "OverflowError" /\ UNCHANGED <<x, y, it>>
       ELSE /\ x' = henon_map(x, y, a, b)[1]
            /\ y' = henon_map(x, y, a, b)[2]
            /\ it' = it + 1
            /\ pc' = pc
    /\ UNCHANGED <<fn, xs, ys, zs, detectorVars, extVars, a, b, x0, y0, n_iter, n_transient>>

\* xs, ys = [x], [y]
HenonStartCollect ==
    /\ fn = "iterate_henon" /\ pc = "transient"
    /\ it >= n_transient
    /\ xs' = <<x>> /\ ys' = <<y>>
    /\ it' = 0
    /\ pc' = "collect"
    /\ UNCHANGED <<fn, zs, detectorVars, extVars, a, b, x0, y0, x, y, n_iter, n_transient>>

\* for _ in range(n_iter): x, y = henon_map(...); xs.append(x); ys.append(y)
HenonCollectIter ==
    /\ fn = "iterate_henon" /\ pc = "collect"
    /\ it < n_iter
    /\ IF PowRaises(x)
       THEN pc' = "OverflowError" /\ UNCHANGED <<x, y, it, xs, ys>>
       ELSE /\ x' = henon_map(x, y, a, b)[1]
            /\ y' = henon_map(x, y, a, b)[2]
            /\ xs' = Append(xs, x')
            /\ ys' = Append(ys, y')
            /\ it' = it + 1
            /\ pc' = pc
    /\ UNCHANGED <<fn, zs, detectorVars, extVars, a, b, x0, y0, n_iter, n_transient>>

\* return np.array(xs), np.array(ys)
HenonReturn ==
    /\ fn = "iterate_henon" /\ pc = "collect"
    /\ it >= n_iter
    /\ pc' = "done"
    /\ UNCHANGED <<fn, xs, ys, zs, detectorVars, henonVars, extVars>>

HenonParamsA == {1, 2}
HenonParamsB == {0, 1}
HenonSeedsX == {0, 1, 25}
HenonSeedsY == {0, 1}

InitHenon ==
    /\ fn = "iterate_henon" /\ pc = "transient"
    /\ a \in HenonParamsA /\ b \in HenonParamsB
    /\ x0 \in HenonSeedsX /\ y0 \in HenonSeedsY
    \* x, y = x0, y0
    /\ x = x0 /\ y = y0
    /\ n_iter \in 0..MaxIter /\ n_transient \in 0..MaxTransient
    /\ it = 0
    /\ xs = <<>> /\ ys = <<>> /\ zs = <<>>
    /\ section_axis = "y" /\ section_value = 0 /\ direction = "positive"
    /\ z_section = 0 /\ i = 0 /\ crossings = <<>> /\ return_map = <<>>
    /\ ExtIdle

NextHenon ==
    \/ HenonTransientIter
    \/ HenonStartCollect
    \/ HenonCollectIter
    \/ HenonReturn

SpecHenon == InitHenon /\ [][NextHenon]_vars

-----------------------------------------------------------------------------
(* Properties of the detectors *)

\* a loop pass has just run on the interval between samples i-1 and i
ScanStep == pc = "loop" /\ i' = i + 1
\* ... and it appended one crossing
Registers == Len(crossings') = Len(crossings) + 1

Upward(v, thr, k) == At(v, k - 1) < thr /\ thr <= At(v, k)
Downward(v, thr, k) == At(v, k - 1) > thr /\ thr >= At(v, k)

\* C1: an upward scan registers a crossing between samples i-1 and i if and
\* only if value[i-1] < threshold <= value[i]: compute_poincare_crossings on
\* zs against z_section, compute_rossler_poincare with direction 'positive',
\* and the y-test of compute_vdp_poincare_map against 0 (which registers when
\* its x-filter xs[i] > 0 passes as well).
C1_UpwardRule ==
    [][ScanStep =>
          /\ fn = "compute_poincare_crossings"
               => (Registers <=> Upward(zs, z_section, i))
          /\ (fn = "compute_rossler_poincare" /\ direction = "positive")
               => (Registers <=> Upward(values, section_value, i))
          /\ fn = "compute_vdp_poincare_map"
               => /\ Registers => Upward(ys, 0, i)
                  /\ (Upward(ys, 0, i) /\ At(xs, i) > 0) => Registers
       ]_vars

\* an upward crossing that hits the threshold exactly on sample i has been
\* registered
C1_Witness ==
    /\ fn = "compute_poincare_crossings"
    /\ i = 2 /\ Len(crossings) = 1
    /\ At(zs, 0) < z_section /\ At(zs, 1) = z_section

\* C2: with a direction other than 'positive', compute_rossler_poincare
\* registers a crossing between samples i-1 and i if and only if
\* value[i-1] > threshold >= value[i].
C2_DownwardRule ==
    [][(ScanStep /\ fn = "compute_rossler_poincare" /\ direction # "positive")
          => (Registers <=> Downward(values, section_value, i))
       ]_vars

C2_Witness ==
    /\ fn = "compute_rossler_poincare" /\ direction = "negative"
    /\ i = 2 /\ Len(crossings) = 1
    /\ At(values, 0) > section_value /\ At(values, 1) = section_value

SectionTest(k) ==
    IF fn = "compute_poincare_crossings"
    THEN PoincareTest(At(zs, k - 1), z_section, At(zs, k))
    ELSE IF fn = "compute_rossler_poincare"
    THEN RosslerTest(direction, At(values, k - 1), section_value, At(values, k))
    ELSE fn = "compute_vdp_poincare_map" /\ VdpTest(k)

Last(sq) == sq[Len(sq)]

\* the loop has just registered the crossing of the interval i-2 .. i-1
JustRegistered == i >= 2 /\ SectionTest(i - 1) /\ crossings # <<>>

\* c = col[k-1] + frac * (col[k] - col[k-1]) with
\* frac = (thr - v[k-1]) / (v[k] - v[k-1]), cross-multiplied
IsInterpolation(c, col, v, thr, k) ==
    LET den == At(v, k) - At(v, k - 1)
    IN  /\ c[2] > 0
        /\ c[1] * den = c[2] * (At(col, k - 1) * den
                                + (thr - At(v, k - 1)) * (At(col, k) - At(col, k - 1)))

\* 2 * c = col[k-1] + col[k]
IsMidpoint(c, col, k) == 2 * c[1] = c[2] * (At(col, k - 1) + At(col, k))

Symmetric(v, thr, k) == thr - At(v, k - 1) = At(v, k) - thr
NonDegenerate(v, k) == Abs(At(v, k) - At(v, k - 1)) > EpsUnits

\* C4: a registered crossing whose denominator is not degenerate is the
\* component-wise linear interpolation state[i-1] + frac * (state[i] -
\* state[i-1]), frac = (threshold - value[i-1]) / (value[i] - value[i-1]);
\* when the two section values are symmetric about the threshold it is the
\* midpoint of the two bracketing states.
C4_LinearInterpolation ==
    JustRegistered =>
      LET c == Last(crossings)
          k == i - 1
      IN  /\ fn = "compute_poincare_crossings" =>
                /\ IsInterpolation(c[1], xs, zs, z_section, k)
                /\ IsInterpolation(c[2], ys, zs, z_section, k)
                /\ IsInterpolation(c[3], zs, zs, z_section, k)
                /\ Symmetric(zs, z_section, k) =>
                      IsMidpoint(c[1], xs, k) /\ IsMidpoint(c[2], ys, k)
          /\ (fn = "compute_rossler_poincare" /\ NonDegenerate(values, k)) =>
                /\ IsInterpolation(c[1], xs, values, section_value, k)
                /\ IsInterpolation(c[2], ys, values, section_value, k)
                /\ IsInterpolation(c[3], zs, values, section_value, k)
                /\ Symmetric(values, section_value, k) =>
                      /\ IsMidpoint(c[1], xs, k)
                      /\ IsMidpoint(c[2], ys, k)
                      /\ IsMidpoint(c[3], zs, k)
          /\ (fn = "compute_vdp_poincare_map" /\ NonDegenerate(ys, k)) =>
                /\ IsInterpolation(c, xs, ys, 0, k)
                /\ Symmetric(ys, 0, k) => IsMidpoint(c, xs, k)

\* section values -3 and 3 around the threshold 0: the crossing registered
\* between the states (-7, 4, -3) and (5, 2, 3) is their midpoint (-1, 3, 0)
C4_Witness ==
    /\ fn = "compute_rossler_poincare" /\ section_axis = "z"
    /\ direction = "positive" /\ section_value = 0
    /\ i = 2
    /\ At(zs, 0) = -3 /\ At(zs, 1) = 3
    /\ crossings = <<<<RatOf(-1), RatOf(3), RatOf(0)>>>>

\* C5 as stated: in every detector, a crossing registered with
\* |value[i] - value[i-1]| below the epsilon is not located by division: it
\* is the state at frac = 0.5 or the later sample taken verbatim.
C5_DegenerateFallback ==
    JustRegistered =>
      LET c == Last(crossings)
          k == i - 1
          v == IF fn = "compute_poincare_crossings" THEN zs
               ELSE IF fn = "compute_rossler_poincare" THEN values ELSE ys
      IN  Abs(At(v, k) - At(v, k - 1)) < EpsUnits =>
            IF fn = "compute_vdp_poincare_map"
            THEN IsMidpoint(c, xs, k) \/ c = RatOf(At(xs, k))
            ELSE \/ IsMidpoint(c[1], xs, k) /\ IsMidpoint(c[2], ys, k)
                 \/ c[1] = RatOf(At(xs, k)) /\ c[2] = RatOf(At(ys, k))

\* C6 as stated: every crossing value x_cross that compute_vdp_poincare_map
\* returns is strictly positive.
C6_CrossingsPositive ==
    fn = "compute_vdp_poincare_map" =>
      \A j \in 1..Len(crossings) : RatLess(RatOf(0), crossings[j])

\* the crossing state the detector computes for the interval k-1 .. k
CrossingAt(k) ==
    IF fn = "compute_poincare_crossings" THEN PoincareCrossing(k)
    ELSE IF fn = "compute_rossler_poincare" THEN RosslerCrossing(k)
    ELSE VdpCrossing(k)

\* the intervals scanned so far that pass the section test, and the n-th of
\* them in sample order
Qualifying == {k \in 1..(i - 1) : SectionTest(k)}
NthQualifying(n) ==
    CHOOSE k \in Qualifying : Cardinality({m \in Qualifying : m <= k}) = n

IsPrefix(s1, s2) ==
    /\ Len(s1) <= Len(s2)
    /\ \A j \in 1..Len(s1) : s1[j] = s2[j]

OneEntryPerQualifyingInterval ==
    fn # "iterate_henon" =>
      /\ Len(crossings) = Cardinality(Qualifying)
      /\ \A n \in 1..Len(crossings) : crossings[n] = CrossingAt(NthQualifying(n))

\* C7: the crossing sequence holds exactly one entry for each interval that
\* passes the section test, in increasing sample order, nothing merged,
\* dropped or deduplicated, so its length is the number of such intervals;
\* during the scan it only grows by appending.
C7_ChronologicalOnePerInterval ==
    /\ []OneEntryPerQualifyingInterval
    /\ [][/\ IsPrefix(crossings, crossings')
          /\ Len(crossings') <= Len(crossings) + 1]_vars

\* two crossings with the same state, from two different intervals, are both
\* kept, in order
C7_Witness ==
    /\ fn = "compute_vdp_poincare_map" /\ pc = "done"
    /\ Len(crossings) = 3
    /\ crossings[1] = crossings[3] /\ crossings[1] # crossings[2]

\* C8: for k crossings the return map has exactly max(k-1, 0) pairs; for
\* k = 0 and k = 1 it is the empty sequence.
C8_ReturnMapCardinality ==
    (fn = "compute_vdp_poincare_map" /\ pc = "done") =>
      LET k == Len(crossings)
      IN  /\ Len(return_map) = (IF k - 1 > 0 THEN k - 1 ELSE 0)
          /\ k <= 1 => return_map = <<>>

\* a single crossing: the call ends with an empty return map
C8_Witness ==
    /\ fn = "compute_vdp_poincare_map" /\ pc = "done"
    /\ Len(crossings) = 1 /\ return_map = <<>>

\* C9: pair number j of the return map is (crossing j, crossing j+1), in the
\* order of the crossing sequence, so the second element of a pair is the
\* first element of the next pair.
C9_ConsecutivePairs ==
    (fn = "compute_vdp_poincare_map" /\ pc = "done") =>
      /\ \A j \in 1..(Len(crossings) - 1) :
           /\ j \in DOMAIN return_map
           /\ return_map[j] = <<crossings[j], crossings[j + 1]>>
      /\ \A j \in 1..(Len(return_map) - 1) :
           return_map[j][2] = return_map[j + 1][1]

\* three crossings, the second unlike the other two: two chained pairs
C9_Witness ==
    /\ fn = "compute_vdp_poincare_map" /\ pc = "done"
    /\ Len(crossings) = 3 /\ Len(return_map) = 2
    /\ crossings[1] # crossings[2] /\ crossings[2] # crossings[3]

\* C10 as stated: iterate_henon with n_transient = T and n_iter = R returns
\* exactly R states.
C10_ReturnsExactlyR ==
    (fn = "iterate_henon" /\ pc = "done") =>
      Len(xs) = n_iter /\ Len(ys) = n_iter

-----------------------------------------------------------------------------
(* Properties of iterate_henon *)

\* henon_map applied n times to <<px, py>>
RECURSIVE HenonOrbit(_, _, _, _, _)
HenonOrbit(n, px, py, pa, pb) ==
    IF n = 0 THEN <<px, py>>
    ELSE LET prev == HenonOrbit(n - 1, px, py, pa, pb)
         IN  henon_map(prev[1], prev[2], pa, pb)

\* none of the first n applications raises OverflowError
RECURSIVE OrbitDefined(_, _, _, _, _)
OrbitDefined(n, px, py, pa, pb) ==
    \/ n = 0
    \/ /\ OrbitDefined(n - 1, px, py, pa, pb)
       /\ ~PowRaises(HenonOrbit(n - 1, px, py, pa, pb)[1])

Collected == fn = "iterate_henon" /\ pc \in {"collect", "done"}

\* C11 as stated: the first retained state is henon_map applied
\* n_transient + 1 times to the seed (the first n_transient iterates are
\* discarded and the cloud starts with the next one).
C11_FirstRetainedIsIterateTPlus1 ==
    (Collected /\ OrbitDefined(n_transient + 1, x0, y0, a, b)) =>
      <<xs[1], ys[1]>> = HenonOrbit(n_transient + 1, x0, y0, a, b)

\* C12 as stated: no non-finite value is ever placed in the retained point
\* cloud: a call whose state escapes to a non-finite value does not return
\* a cloud, it ends in a DivergenceFailure.
C12_NoNonFiniteRetained ==
    fn = "iterate_henon" =>
      /\ \A j \in 1..Len(xs) : IsFinite(xs[j]) /\ IsFinite(ys[j])
      /\ pc = "done" => IsFinite(x) /\ IsFinite(y)

-----------------------------------------------------------------------------
(* Exact arithmetic of the fixed points.  A real of the form p + q*sqrt(d), *)
(* p, q, d fractions and d >= 0, is the record [p, q, d]; all the numbers   *)
(* of one call share the radicand d, the discriminant of that call.         *)

RatNeg(p) == <<-p[1], p[2]>>
RatSub(p, q) == RatAdd(p, RatNeg(q))
RatDiv(p, q) == Rat(p[1] * q[2], p[2] * q[1])
RatSign(p) == IF p[1] > 0 THEN 1 ELSE IF p[1] < 0 THEN -1 ELSE 0

SOf(r) == [p |-> r, q |-> RatOf(0), d |-> RatOf(0)]
\* the radicand two numbers of one call share
SRadicand(u, v) == IF u.q[1] # 0 THEN u.d ELSE v.d
SAdd(u, v) ==
    [p |-> RatAdd(u.p, v.p), q |-> RatAdd(u.q, v.q), d |-> SRadicand(u, v)]
SScale(r, u) == [p |-> RatMul(r, u.p), q |-> RatMul(r, u.q), d |-> u.d]
SNeg(u) == SScale(RatOf(-1), u)
SMul(u, v) ==
    LET d == SRadicand(u, v)
    IN  [p |-> RatAdd(RatMul(u.p, v.p), RatMul(RatMul(u.q, v.q), d)),
         q |-> RatAdd(RatMul(u.p, v.q), RatMul(u.q, v.p)),
         d |-> d]
\* the sign of p + q*sqrt(d), by comparing p^2 with q^2 * d
SSign(u) ==
    LET sp == RatSign(u.p)
        sq == IF RatSign(u.d) = 0 THEN 0 ELSE RatSign(u.q)
        p2 == RatMul(u.p, u.p)
        q2d == RatMul(RatMul(u.q, u.q), u.d)
    IN  IF sq = 0 THEN sp
        ELSE IF sp = 0 \/ sp = sq THEN sq
        ELSE IF RatLess(q2d, p2) THEN sp
        ELSE IF RatLess(p2, q2d) THEN sq
        ELSE 0

\* the sign of u + sg * sqrt(D) for D >= 0 and sg = 1 or -1
SqrtSign(u, D, sg) ==
    LET su == SSign(u)
        u2 == SMul(u, u)
    IN  IF SSign(D) = 0 THEN su
        ELSE IF sg = 1
             THEN IF su >= 0 THEN 1 ELSE SSign(SAdd(D, SNeg(u2)))
             ELSE IF su <= 0 THEN -1 ELSE SSign(SAdd(u2, SNeg(D)))

\* a numpy float64: a number, nan, inf or -inf
Num(u) == [kind |-> "num", v |-> u]
NNaN == [kind |-> "nan", v |-> SOf(RatOf(0))]
NInf(s) == [kind |-> IF s > 0 THEN "inf" ELSE "-inf", v |-> SOf(RatOf(0))]
NSign(xv) ==
    IF xv.kind = "num" THEN SSign(xv.v) ELSE IF xv.kind = "inf" THEN 1 ELSE -1

NNeg(xv) ==
    IF xv.kind = "num" THEN Num(SNeg(xv.v))
    ELSE IF xv.kind = "nan" THEN NNaN
    ELSE NInf(-NSign(xv))

NAdd(xv, yv) ==
    IF xv.kind = "nan" \/ yv.kind = "nan" THEN NNaN
    ELSE IF xv.kind = "num" /\ yv.kind = "num" THEN Num(SAdd(xv.v, yv.v))
    ELSE IF xv.kind = "num" THEN yv
    ELSE IF yv.kind = "num" THEN xv
    ELSE IF xv.kind = yv.kind THEN xv
    ELSE NNaN

NMul(xv, yv) ==
    IF xv.kind = "nan" \/ yv.kind = "nan" THEN NNaN
    ELSE IF xv.kind = "num" /\ yv.kind = "num" THEN Num(SMul(xv.v, yv.v))
    ELSE IF NSign(xv) = 0 \/ NSign(yv) = 0 THEN NNaN
    ELSE NInf(NSign(xv) * NSign(yv))

\* numpy's division: x / 0 is nan, inf or -inf, never an exception
NDiv(xv, r) ==
    IF xv.kind = "nan" THEN NNaN
    ELSE IF r[1] = 0
         THEN IF NSign(xv) = 0 THEN NNaN ELSE NInf(NSign(xv))
    ELSE IF xv.kind = "num" THEN Num(SScale(RatDiv(RatOf(1), r), xv.v))
    ELSE NInf(NSign(xv) * RatSign(r))

NRat(r) == Num(SOf(r))
\* == on floats: nan equals nothing
NEq(xv, yv) ==
    IF xv.kind = "nan" \/ yv.kind = "nan" THEN FALSE
    ELSE IF xv.kind = "num" /\ yv.kind = "num"
         THEN SSign(SAdd(xv.v, SNeg(yv.v))) = 0
    ELSE xv.kind = yv.kind

-----------------------------------------------------------------------------
(* henon_fixed_points, henon_jacobian_eigenvalues and the stability label  *)
(* HenonAttractorScene.construct gives every fixed point                   *)

\* x_new = 1 - a * x**2 + y ;  y_new = b * x, on exact numbers
HenonMapExact(xv, yv, pa, pb) ==
    <<NAdd(NAdd(NRat(RatOf(1)), NNeg(NMul(NRat(pa), NMul(xv, xv)))), yv),
      NMul(NRat(pb), xv)>>

\* discriminant = (1 - b)**2 + 4 * a
Discriminant(pa, pb) ==
    RatAdd(RatMul(RatSub(RatOf(1), pb), RatSub(RatOf(1), pb)),
           RatMul(RatOf(4), pa))

\* the two roots, kept apart from the early return
FixedPointPair(pa, pb) ==
    LET sqrt_disc == Num([p |-> RatOf(0), q |-> RatOf(1),
                          d |-> Discriminant(pa, pb)])
        minus == NRat(RatNeg(RatSub(RatOf(1), pb)))
        x1 == NDiv(NAdd(minus, sqrt_disc), RatMul(RatOf(2), pa))
        x2 == NDiv(NAdd(minus, NNeg(sqrt_disc)), RatMul(RatOf(2), pa))
        y1 == NMul(NRat(pb), x1)
        y2 == NMul(NRat(pb), x2)
    IN  <<<<x1, y1>>, <<x2, y2>>>>

\* the early return taken at a zero discriminant too
henon_fixed_points_nonpositive(pa, pb) ==
    IF RatSign(Discriminant(pa, pb)) <= 0 THEN <<>>
    ELSE FixedPointPair(pa, pb)

\* if discriminant < 0: return [] ; else [(x1, y1), (x2, y2)]
henon_fixed_points(pa, pb) ==
    IF RatSign(Discriminant(pa, pb)) < 0 THEN <<>>
    ELSE FixedPointPair(pa, pb)

\* both eigenvalues taken with the same sign of the root
EigenvalueSameRoot(k, tr, dc, sg) ==
    [kind |-> k, tr |-> tr, dc |-> dc, sg |-> 1]

\* an eigenvalue: (tr + sg * sqrt(dc)) / 2 when kind is "float",
\* tr / 2 + sg * sqrt(dc) / 2 * 1j when kind is "complex"
Eigenvalue(k, tr, dc, sg) == [kind |-> k, tr |-> tr, dc |-> dc, sg |-> sg]

\* trace = -2 * a * x ; det = -b ; disc = trace**2 - 4 * det
henon_jacobian_eigenvalues(xv, pa, pb) ==
    LET trace == NMul(NRat(RatMul(RatOf(-2), pa)), xv)
        det == RatNeg(pb)
        disc == NAdd(NMul(trace, trace), NNeg(NRat(RatMul(RatOf(4), det))))
    IN  IF disc.kind # "nan" /\ NSign(disc) >= 0
        THEN <<Eigenvalue("float", trace, disc, 1),
               Eigenvalue("float", trace, disc, -1)>>
        ELSE <<Eigenvalue("complex", trace, NNeg(disc), 1),
               Eigenvalue("complex", trace, NNeg(disc), -1)>>

\* the sign of eig - c for a real eigenvalue made of numbers
EigCompare(eig, c) ==
    SqrtSign(SAdd(eig.tr.v, SOf(RatOf(-2 * c))), eig.dc.v, eig.sg)

\* abs(eig) > 1
AbsExceeds1(eig) ==
    IF eig.tr.kind = "num" /\ eig.dc.kind = "num"
    THEN EigCompare(eig, 1) > 0 \/ EigCompare(eig, -1) < 0
    ELSE NAdd(eig.tr, IF eig.sg = 1 THEN eig.dc ELSE NNeg(eig.dc)).kind
           \in {"inf", "-inf"}

\* the label with the two magnitude tests joined by and
StabilityBothExceed(e1, e2) ==
    IF e1.kind = "complex" THEN "spiral"
    ELSE IF AbsExceeds1(e1) /\ AbsExceeds1(e2) THEN "saddle"
    ELSE "stable"

\* if isinstance(eig1, complex) ... elif abs(eig1) > 1 or abs(eig2) > 1 ...
Stability(e1, e2) ==
    IF e1.kind = "complex" THEN "spiral"
    ELSE IF AbsExceeds1(e1) \/ AbsExceeds1(e2) THEN "saddle"
    ELSE "stable"

\* the variables the scene leaves alone
sceneRest == <<xs, ys, zs, section_axis, section_value, direction, z_section,
               crossings, return_map, x0, y0, x, y, n_iter, n_transient, it,
               integVars, sweepVars, parVars, lateVars>>

\* fixed_pts = henon_fixed_points(a, b)
SceneFixedPoints ==
    /\ fn = "HenonAttractorScene" /\ pc = "fixed_pts"
    /\ fixed_pts' = henon_fixed_points(a, b)
    /\ i' = 0
    /\ pc' = "loop"
    /\ UNCHANGED <<fn, a, b, fx, eig1, eig2, stab_str, sceneRest>>

\* for i, (fx, fy) in enumerate(fixed_pts):
\*     eig1, eig2 = henon_jacobian_eigenvalues(fx, a, b)
SceneEigenvalues ==
    /\ fn = "HenonAttractorScene" /\ pc = "loop"
    /\ i < Len(fixed_pts)
    /\ fx' = At(fixed_pts, i)[1]
    /\ eig1' = henon_jacobian_eigenvalues(fx', a, b)[1]
    /\ eig2' = henon_jacobian_eigenvalues(fx', a, b)[2]
    /\ pc' = "stability"
    /\ UNCHANGED <<fn, a, b, i, fixed_pts, stab_str, sceneRest>>

\* the if-chain that sets stab_str, then the next fixed point
SceneStability ==
    /\ fn = "HenonAttractorScene" /\ pc = "stability"
    /\ stab_str' = Stability(eig1, eig2)
    /\ i' = i + 1
    /\ pc' = "loop"
    /\ UNCHANGED <<fn, a, b, fixed_pts, fx, eig1, eig2, sceneRest>>

SceneLoopEnd ==
    /\ fn = "HenonAttractorScene" /\ pc = "loop"
    /\ i >= Len(fixed_pts)
    /\ pc' = "done"
    /\ UNCHANGED <<fn, a, b, i, sceneVars, sceneRest>>

\* the parameters: the scene's a = 1.4, b = 0.3 and others the two
\* functions accept
SceneParamsA == {Rat(7, 5), RatOf(1), RatOf(0), Rat(-1, 4), Rat(-45, 4),
                 RatOf(-1), Rat(1, 4)}
SceneParamsB == {Rat(3, 10), RatOf(0), RatOf(1), RatOf(-1), RatOf(-6)}

InitScene ==
    /\ fn = "HenonAttractorScene" /\ pc = "fixed_pts"
    /\ a \in SceneParamsA /\ b \in SceneParamsB
    /\ SceneIdle /\ IntegIdle /\ SweepIdle /\ ParIdle /\ LateIdle
    /\ x0 = 0 /\ y0 = 0 /\ x = 0 /\ y = 0
    /\ n_iter = 0 /\ n_transient = 0 /\ it = 0
    /\ xs = <<>> /\ ys = <<>> /\ zs = <<>>
    /\ section_axis = "y" /\ section_value = 0 /\ direction = "positive"
    /\ z_section = 0 /\ i = 0 /\ crossings = <<>> /\ return_map = <<>>

NextScene ==
    \/ SceneFixedPoints
    \/ SceneEigenvalues
    \/ SceneStability
    \/ SceneLoopEnd

SpecScene == InitScene /\ [][NextScene]_vars

-----------------------------------------------------------------------------
(* Properties of the fixed points and of their stability labels *)

\* henon_fixed_points has returned
FixedPointsReturned == fn = "HenonAttractorScene" /\ pc # "fixed_pts"

\* two floats that read the same: the same number, or both nan, both inf,
\* both -inf
SameFloat(xv, yv) ==
    /\ xv.kind = yv.kind
    /\ xv.kind = "num" => SSign(SAdd(xv.v, SNeg(yv.v))) = 0
SameEntry(pt, qt) == SameFloat(pt[1], qt[1]) /\ SameFloat(pt[2], qt[2])

\* C13: henon_fixed_points(a, b) returns the empty list when the
\* discriminant (1-b)^2 + 4a is negative and a list of exactly two points
\* otherwise; the two entries are equal when the discriminant is zero; for
\* a = 1.4, b = 0.3 it returns exactly two.
C13_FixedPointCount ==
    FixedPointsReturned =>
      /\ RatSign(Discriminant(a, b)) < 0 => fixed_pts = <<>>
      /\ RatSign(Discriminant(a, b)) >= 0 => Len(fixed_pts) = 2
      /\ RatSign(Discriminant(a, b)) = 0 =>
           Len(fixed_pts) = 2 /\ SameEntry(fixed_pts[1], fixed_pts[2])
      /\ (a = Rat(7, 5) /\ b = Rat(3, 10)) => Len(fixed_pts) = 2

\* a zero discriminant has given two equal numeric entries
C13_Witness ==
    /\ FixedPointsReturned
    /\ RatSign(Discriminant(a, b)) = 0
    /\ Len(fixed_pts) = 2
    /\ fixed_pts[1][1].kind = "num"
    /\ SameEntry(fixed_pts[1], fixed_pts[2])

\* the point is mapped to itself
IsFixedPoint(pt) ==
    LET img == HenonMapExact(pt[1], pt[2], a, b)
    IN  NEq(img[1], pt[1]) /\ NEq(img[2], pt[2])

\* C14 as stated: every point henon_fixed_points(a, b) returns, for every
\* a, b with a non-negative discriminant, is mapped to itself by henon_map.
C14_ReturnedPointsAreFixed ==
    FixedPointsReturned =>
      \A k \in 1..Len(fixed_pts) : IsFixedPoint(fixed_pts[k])

\* the if-chain has labelled the fixed point whose eigenvalues are eig1, eig2
Labelled ==
    fn = "HenonAttractorScene" /\ pc \in {"loop", "done"} /\ stab_str # ""

RealPair ==
    /\ eig1.kind = "float" /\ eig2.kind = "float"
    /\ eig1.tr.kind = "num" /\ eig1.dc.kind = "num"
ComplexPair ==
    /\ eig1.kind = "complex" /\ eig2.kind = "complex"
    /\ eig1.tr.kind = "num" /\ eig1.dc.kind = "num" /\ SSign(eig1.dc.v) > 0

MagnitudeBelow1(eig) == EigCompare(eig, 1) < 0 /\ EigCompare(eig, -1) > 0
MagnitudeIs1(eig) == EigCompare(eig, 1) = 0 \/ EigCompare(eig, -1) = 0
MagnitudeAbove1(eig) == EigCompare(eig, 1) > 0 \/ EigCompare(eig, -1) < 0
Straddle ==
    \/ MagnitudeAbove1(eig1) /\ MagnitudeBelow1(eig2)
    \/ MagnitudeBelow1(eig1) /\ MagnitudeAbove1(eig2)

\* C15: two real eigenvalues of magnitude below 1 are labelled 'stable', two
\* real eigenvalues whose magnitudes straddle 1 are labelled 'saddle', and a
\* complex pair with a nonzero imaginary part is labelled 'spiral'.
C15_StableSaddleSpiral ==
    Labelled =>
      /\ (RealPair /\ MagnitudeBelow1(eig1) /\ MagnitudeBelow1(eig2)) =>
           stab_str = "stable"
      /\ (RealPair /\ Straddle) => stab_str = "saddle"
      /\ ComplexPair => stab_str = "spiral"

\* a fixed point of a = 1.4, b = 0.3 has been labelled: its eigenvalues
\* straddle 1
C15_Witness ==
    /\ Labelled /\ a = Rat(7, 5) /\ b = Rat(3, 10)
    /\ RealPair /\ Straddle
    /\ stab_str = "saddle"

\* C16 as stated: two real eigenvalues both of magnitude above 1 are
\* labelled 'repelling', not 'saddle'.
C16_BothAboveIsRepelling ==
    (Labelled /\ RealPair /\ MagnitudeAbove1(eig1) /\ MagnitudeAbove1(eig2))
      => stab_str = "repelling"

\* C17 as stated: a real eigenvalue of magnitude exactly 1, none above 1, is
\* labelled 'marginal', never 'stable' or 'unstable'.
C17_BoundaryIsMarginal ==
    (/\ Labelled /\ RealPair
     /\ MagnitudeIs1(eig1) \/ MagnitudeIs1(eig2)
     /\ ~MagnitudeAbove1(eig1) /\ ~MagnitudeAbove1(eig2))
      => stab_str = "marginal"

-----------------------------------------------------------------------------
(* integrate_van_der_pol, integrate_lorenz, integrate_rossler: solve_ivp    *)
(* with dense_output, then the dense solution evaluated on a grid over the  *)
(* whole t_span.  solve_ivp belongs to scipy: what it returns is any of the *)
(* results its contract allows.  Solver steps are one time unit long.      *)

\* largest t1 of t_span = (0, t1)
MaxSpan == 3
\* largest n_points
MaxSamples == 3

IntegrateFunctions ==
    {"integrate_van_der_pol", "integrate_lorenz", "integrate_rossler"}

\* the results of solve_ivp(f, t_span, y0, dense_output=True): status 0 and
\* the last time t1, or status -1 and a last time before t1; one segment of
\* the dense solution per accepted step
SolveIvp(ts) ==
    {[status |-> 0, t_last |-> ts[2], n_segments |-> ts[2] - ts[1]]}
      \cup {[status |-> -1, t_last |-> t, n_segments |-> t - ts[1]] :
              t \in ts[1]..(ts[2] - 1)}

\* np.linspace(*t_span, n_points)
linspace(ts, n) ==
    [k \in 1..n |-> RatAdd(RatOf(ts[1]), Rat((k - 1) * (ts[2] - ts[1]), n - 1))]

\* sol.sol(t_eval): one sample per time of t_eval; a time past the last
\* segment is evaluated on the last segment's interpolant
DenseOutput(s, te) ==
    [k \in 1..Len(te) |->
       [t |-> te[k], extrapolated |-> RatLess(RatOf(s.t_last), te[k])]]

integRest == <<xs, ys, zs, detectorVars, henonVars, sceneVars, sweepVars,
               parVars, lateVars>>

\* sol = solve_ivp(...)
IntegrateSolve ==
    /\ fn \in IntegrateFunctions /\ pc = "solve_ivp"
    /\ sol' \in SolveIvp(t_span)
    /\ pc' = "linspace"
    /\ UNCHANGED <<fn, t_span, n_points, t_eval, xy, integRest>>

\* t_eval = np.linspace(*t_span, n_points)
IntegrateLinspace ==
    /\ fn \in IntegrateFunctions /\ pc = "linspace"
    /\ t_eval' = linspace(t_span, n_points)
    /\ pc' = "sol.sol"
    /\ UNCHANGED <<fn, t_span, n_points, sol, xy, integRest>>

\* xy = sol.sol(t_eval); without a segment there is no interpolant to
\* evaluate and the call raises
IntegrateDense ==
    /\ fn \in IntegrateFunctions /\ pc = "sol.sol"
    /\ IF sol.n_segments = 0
       THEN pc' = "raised" /\ xy' = xy
       ELSE pc' = "return" /\ xy' = DenseOutput(sol, t_eval)
    /\ UNCHANGED <<fn, t_span, n_points, sol, t_eval, integRest>>

\* return xy[0], xy[1]
IntegrateReturn ==
    /\ fn \in IntegrateFunctions /\ pc = "return"
    /\ pc' = "done"
    /\ UNCHANGED <<fn, integVars, integRest>>

InitIntegrate ==
    /\ fn \in IntegrateFunctions /\ pc = "solve_ivp"
    /\ t_span \in {<<0, t1>> : t1 \in 1..MaxSpan}
    /\ n_points \in 2..MaxSamples
    /\ sol = <<>> /\ t_eval = <<>> /\ xy = <<>>
    /\ xs = <<>> /\ ys = <<>> /\ zs = <<>>
    /\ section_axis = "y" /\ section_value = 0 /\ direction = "positive"
    /\ z_section = 0 /\ i = 0 /\ crossings = <<>> /\ return_map = <<>>
    /\ HenonIdle /\ SceneIdle /\ SweepIdle /\ ParIdle /\ LateIdle

NextIntegrate ==
    \/ IntegrateSolve
    \/ IntegrateLinspace
    \/ IntegrateDense
    \/ IntegrateReturn

SpecIntegrate == InitIntegrate /\ [][NextIntegrate]_vars

-----------------------------------------------------------------------------
(* Properties of the integrate functions *)

\* the call has ended after the solver stopped before t1
EndedAfterSolverFailure ==
    /\ fn \in IntegrateFunctions /\ pc \in {"done", "raised"}
    /\ sol.status = -1

\* C18 as stated: when the solver stops before t1 the call ends in an
\* IntegrationFailure that names the last valid time, and every sample handed
\* to the caller is of a time up to that last valid time.
C18_FailureReportedAndClipped ==
    EndedAfterSolverFailure =>
      /\ pc = "IntegrationFailure"
      /\ \A j \in 1..Len(xy) : ~RatLess(RatOf(sol.t_last), xy[j].t)

-----------------------------------------------------------------------------
(* The sweeps: VanDerPolScene.construct runs compute_vdp_poincare_map for   *)
(* every x0_start of a list, LorenzRhoGrowthScene.construct runs            *)
(* compute_lorenz_trajectory for every rho_val of a list.  Both loops have  *)
(* no try/except: what an invocation raises leaves the loop.               *)

SweepFunctions == {"VanDerPolScene", "LorenzRhoGrowthScene"}

\* [0.1, 0.5, 1.0, 2.0, 3.0] in tenths, and [5, 10, 15, 20, 24]
SweepValues(f) ==
    IF f = "VanDerPolScene" THEN <<1, 5, 10, 20, 30>>
    ELSE <<5, 10, 15, 20, 24>>

sweepRest == <<xs, ys, zs, detectorVars, henonVars, sceneVars, integVars,
               parVars, lateVars>>

\* one pass of the loop: the invocation integrates (solve_ivp, then the
\* dense solution on the whole grid) and its result is collected; when the
\* dense solution raises, the exception leaves the loop and construct
SweepInvoke ==
    /\ fn \in SweepFunctions /\ pc = "sweep"
    /\ sweep_i < Len(SweepValues(fn))
    /\ \E s \in SolveIvp(<<0, MaxSpan>>) :
         IF s.n_segments = 0
         THEN pc' = "raised" /\ UNCHANGED <<sweep_i, all_results>>
         ELSE /\ all_results' =
                   Append(all_results, [value |-> At(SweepValues(fn), sweep_i),
                                        status |-> s.status])
              /\ sweep_i' = sweep_i + 1
              /\ pc' = pc
    /\ UNCHANGED <<fn, sweepRest>>

\* the list is exhausted
SweepEnd ==
    /\ fn \in SweepFunctions /\ pc = "sweep"
    /\ sweep_i >= Len(SweepValues(fn))
    /\ pc' = "done"
    /\ UNCHANGED <<fn, sweepVars, sweepRest>>

InitSweep ==
    /\ fn \in SweepFunctions /\ pc = "sweep"
    /\ SweepIdle
    /\ xs = <<>> /\ ys = <<>> /\ zs = <<>>
    /\ section_axis = "y" /\ section_value = 0 /\ direction = "positive"
    /\ z_section = 0 /\ i = 0 /\ crossings = <<>> /\ return_map = <<>>
    /\ HenonIdle /\ SceneIdle /\ IntegIdle /\ ParIdle /\ LateIdle

NextSweep ==
    \/ SweepInvoke
    \/ SweepEnd

SpecSweep == InitSweep /\ [][NextSweep]_vars

-----------------------------------------------------------------------------
(* Properties of the sweeps *)

SweepOver == fn \in SweepFunctions /\ pc \in {"done", "raised"}

\* C19 as stated: a failure in one invocation does not abort the sweep; when
\* the sweep is over every value of the list has been invoked and its result
\* collected.
C19_SweepSurvivesFailure ==
    SweepOver =>
      /\ Len(all_results) = Len(SweepValues(fn))
      /\ \A k \in 1..Len(all_results) :
           all_results[k].value = SweepValues(fn)[k]

-----------------------------------------------------------------------------
(* Two calls side by side.  frame[p] is the activation of call p: the       *)
(* function called, its arguments and its locals.  The functions keep       *)
(* everything they change in locals (x, y, xs, ys of iterate_henon; i,      *)
(* crossings, return_map of compute_vdp_poincare_map) and the module has    *)
(* no global they assign, so a step of call p works on the locals of p.     *)

Calls == {1, 2}

\* the locals in one module-level place, whoever runs
OwnerShared(p) == 1

\* the activation that holds the locals call p works on: its own
Owner(p) == p

Loc(p) == frame[Owner(p)].loc
Args(p) == frame[p].args

\* ys[i-1] < 0 and ys[i] >= 0 and xs[i] > 0 on the samples of a call
VdpTestOf(sx, sy, k) ==
    VdpPrimaryTest(At(sy, k - 1), At(sy, k)) /\ At(sx, k) > 0

\* the epsilon guard, t_frac and x_cross on the samples of a call
VdpCrossingOf(sx, sy, k) ==
    IF Abs(At(sy, k) - At(sy, k - 1)) > EpsUnits
    THEN LET t_frac == Rat(-At(sy, k - 1), At(sy, k) - At(sy, k - 1))
         IN  Interpolate(At(sx, k - 1), t_frac, At(sx, k))
    ELSE RatOf(At(sx, k))

parRest == <<fn, pc, xs, ys, zs, detectorVars, henonVars, sceneVars,
             integVars, sweepVars, lateVars>>

\* call p writes its locals
Write(p, loc) ==
    /\ frame' = [frame EXCEPT ![Owner(p)].loc = loc]
    /\ UNCHANGED parRest

\* for _ in range(n_transient): x, y = henon_map(x, y, a, b)
ParHenonTransientIter(p) ==
    /\ frame[p].fn = "iterate_henon" /\ Loc(p).pc = "transient"
    /\ Loc(p).it < Args(p).n_transient
    /\ IF PowRaises(Loc(p).x)
       THEN Write(p, [Loc(p) EXCEPT !.pc = "OverflowError"])
       ELSE LET nxt == henon_map(Loc(p).x, Loc(p).y, Args(p).a, Args(p).b)
            IN  Write(p, [Loc(p) EXCEPT !.x = nxt[1], !.y = nxt[2],
                                        !.it = @ + 1])

\* xs, ys = [x], [y]
ParHenonStartCollect(p) ==
    /\ frame[p].fn = "iterate_henon" /\ Loc(p).pc = "transient"
    /\ Loc(p).it >= Args(p).n_transient
    /\ Write(p, [Loc(p) EXCEPT !.xs = <<Loc(p).x>>, !.ys = <<Loc(p).y>>,
                               !.it = 0, !.pc = "collect"])

\* for _ in range(n_iter): x, y = henon_map(...); xs.append(x); ys.append(y)
ParHenonCollectIter(p) ==
    /\ frame[p].fn = "iterate_henon" /\ Loc(p).pc = "collect"
    /\ Loc(p).it < Args(p).n_iter
    /\ IF PowRaises(Loc(p).x)
       THEN Write(p, [Loc(p) EXCEPT !.pc = "OverflowError"])
       ELSE LET nxt == henon_map(Loc(p).x, Loc(p).y, Args(p).a, Args(p).b)
            IN  Write(p, [Loc(p) EXCEPT !.x = nxt[1], !.y = nxt[2],
                                        !.xs = Append(@, nxt[1]),
                                        !.ys = Append(@, nxt[2]),
                                        !.it = @ + 1])

\* return np.array(xs), np.array(ys)
ParHenonReturn(p) ==
    /\ frame[p].fn = "iterate_henon" /\ Loc(p).pc = "collect"
    /\ Loc(p).it >= Args(p).n_iter
    /\ Write(p, [Loc(p) EXCEPT !.pc = "done"])

\* one pass of for i in range(1, len(ys))
ParVdpIter(p) ==
    /\ frame[p].fn = "compute_vdp_poincare_map" /\ Loc(p).pc = "loop"
    /\ Loc(p).i < Len(Args(p).ys)
    /\ Write(p, [Loc(p) EXCEPT
                   !.crossings =
                      IF VdpTestOf(Args(p).xs, Args(p).ys, Loc(p).i)
                      THEN Register(@, VdpCrossingOf(Args(p).xs, Args(p).ys,
                                                     Loc(p).i))
                      ELSE @,
                   !.i = @ + 1])

\* return_map = [...] ; return crossings, return_map
ParVdpReturn(p) ==
    /\ frame[p].fn = "compute_vdp_poincare_map" /\ Loc(p).pc = "loop"
    /\ Loc(p).i >= Len(Args(p).ys)
    /\ Write(p, [Loc(p) EXCEPT !.return_map = ReturnMap(Loc(p).crossings),
                               !.pc = "done"])

\* the arguments of the calls; a call uses the fields its function has
HenonArgs(pa, pb, px, py, n, t) ==
    [a |-> pa, b |-> pb, x0 |-> px, y0 |-> py, n_iter |-> n,
     n_transient |-> t, xs |-> <<>>, ys |-> <<>>]
VdpArgs(smp) ==
    [a |-> 0, b |-> 0, x0 |-> 0, y0 |-> 0, n_iter |-> 0, n_transient |-> 0,
     xs |-> Oth1Col(smp), ys |-> SecCol(smp)]

ParHenonCalls == {HenonArgs(1, 1, 0, 0, 1, 1), HenonArgs(1, 0, 1, 1, 2, 0)}
ParVdpCalls ==
    {VdpArgs(<<<<-3, <<-7, 4>>>>, <<2, <<-3, 4>>>>, <<-1, <<1, 0>>>>,
               <<3, <<5, 2>>>>>>),
     VdpArgs(<<<<-1, <<1, 0>>>>, <<3, <<5, 2>>>>, <<-3, <<-7, 4>>>>,
               <<2, <<-3, 4>>>>, <<-1, <<1, 0>>>>, <<3, <<5, 2>>>>>>)}

\* the activation at the entry of the function
Activation(f, args) ==
    [fn |-> f, args |-> args,
     loc |-> [pc |-> IF f = "iterate_henon" THEN "transient" ELSE "loop",
              x |-> args.x0, y |-> args.y0, it |-> 0,
              xs |-> <<>>, ys |-> <<>>,
              i |-> 1, crossings |-> <<>>, return_map |-> <<>>]]

Activations ==
    {Activation("iterate_henon", args) : args \in ParHenonCalls}
      \cup {Activation("compute_vdp_poincare_map", args) :
              args \in ParVdpCalls}

InitParallel ==
    /\ frame \in [Calls -> Activations]
    /\ fn = "parallel" /\ pc = "running"
    /\ xs = <<>> /\ ys = <<>> /\ zs = <<>>
    /\ section_axis = "y" /\ section_value = 0 /\ direction = "positive"
    /\ z_section = 0 /\ i = 0 /\ crossings = <<>> /\ return_map = <<>>
    /\ HenonIdle /\ SceneIdle /\ IntegIdle /\ SweepIdle /\ LateIdle

NextParallel ==
    \E p \in Calls :
      \/ ParHenonTransientIter(p)
      \/ ParHenonStartCollect(p)
      \/ ParHenonCollectIter(p)
      \/ ParHenonReturn(p)
      \/ ParVdpIter(p)
      \/ ParVdpReturn(p)

SpecParallel == InitParallel /\ [][NextParallel]_vars

-----------------------------------------------------------------------------
(* Properties of two calls side by side *)

\* what iterate_henon returns when it runs alone
SoloHenon(args) ==
    [k \in 1..(args.n_iter + 1) |->
       HenonOrbit(args.n_transient + k - 1, args.x0, args.y0, args.a, args.b)]

\* the crossings compute_vdp_poincare_map finds alone in passes 1..k
RECURSIVE SoloVdpCrossings(_, _, _)
SoloVdpCrossings(sx, sy, k) ==
    IF k = 0 THEN <<>>
    ELSE LET before == SoloVdpCrossings(sx, sy, k - 1)
         IN  IF VdpTestOf(sx, sy, k)
             THEN Append(before, VdpCrossingOf(sx, sy, k))
             ELSE before

\* call p has returned what it returns alone
SameAsAlone(p) ==
    IF frame[p].fn = "iterate_henon"
    THEN /\ Len(Loc(p).xs) = Args(p).n_iter + 1
         /\ Len(Loc(p).ys) = Args(p).n_iter + 1
         /\ \A k \in 1..(Args(p).n_iter + 1) :
              <<Loc(p).xs[k], Loc(p).ys[k]>> = SoloHenon(Args(p))[k]
    ELSE /\ Loc(p).crossings =
              SoloVdpCrossings(Args(p).xs, Args(p).ys, Len(Args(p).ys) - 1)
         /\ Loc(p).return_map = ReturnMap(Loc(p).crossings)

\* a step of one call leaves the activation of the other call as it was
OneCallPerStep == \E p \in Calls : \A q \in Calls \ {p} : frame'[q] = frame[q]

\* C20: two calls on inputs of their own, their steps interleaved in any
\* order, each return what the call returns when it runs alone, and no step
\* of one call changes the activation of the other.
C20_InterleavedCallsIndependent ==
    /\ [](fn = "parallel" =>
            \A p \in Calls : Loc(p).pc = "done" => SameAsAlone(p))
    /\ [][fn = "parallel" => OneCallPerStep]_vars

\* iterate_henon has returned while compute_vdp_poincare_map is in the
\* middle of its loop with a crossing registered; both have taken steps
C20_Witness ==
    /\ fn = "parallel"
    /\ frame[1].fn = "iterate_henon" /\ Loc(1).pc = "done"
    /\ Len(Loc(1).xs) = 3
    /\ frame[2].fn = "compute_vdp_poincare_map" /\ Loc(2).pc = "loop"
    /\ Loc(2).i = 3 /\ Len(Loc(2).crossings) = 1
    /\ SameAsAlone(1)

-----------------------------------------------------------------------------
(* The vector fields van_der_pol, lorenz, rossler_system, hopf_system and   *)
(* pendulum_system, each called twice by a caller that keeps the state.     *)
(* Numbers are integers; the angle of the pendulum is counted in quarter    *)
(* turns, where the sine is exact.                                          *)

\* np.sin on quarter turns
Sin(q) == CASE q % 4 = 0 -> 0 [] q % 4 = 1 -> 1 [] q % 4 = 2 -> 0 [] OTHER -> -1

\* x, y = state ; return [y, mu * (1 - x**2) * y - x]
van_der_pol(t, st, mu) ==
    <<st[2], mu * (1 - st[1] * st[1]) * st[2] - st[1]>>

\* return [sigma * (y - x), x * (rho - z) - y, x * y - beta * z]
lorenz(t, st, sigma, rho, beta) ==
    <<sigma * (st[2] - st[1]),
      st[1] * (rho - st[3]) - st[2],
      st[1] * st[2] - beta * st[3]>>

\* return [-y - z, x + a * y, b + z * (x - c)]
rossler_system(t, st, pa, pb, pc_) ==
    <<-st[2] - st[3], st[1] + pa * st[2], pb + st[3] * (st[1] - pc_)>>

\* r_sq = x**2 + y**2 ; [mu * x - y - x * r_sq, x + mu * y - y * r_sq]
hopf_system(t, st, mu) ==
    LET r_sq == st[1] * st[1] + st[2] * st[2]
    IN  <<mu * st[1] - st[2] - st[1] * r_sq, st[1] + mu * st[2] - st[2] * r_sq>>

\* return [omega, -g_over_L * np.sin(theta) - damping * omega]
pendulum_system(t, st, g_over_L, damping) ==
    <<st[2], -g_over_L * Sin(st[1]) - damping * st[2]>>

FieldFunctions ==
    {"van_der_pol", "lorenz", "rossler_system", "hopf_system",
     "pendulum_system"}

\* the length of state and the number of parameters of each field
Dimension(f) == IF f \in {"lorenz", "rossler_system"} THEN 3 ELSE 2
ParamCount(f) ==
    IF f \in {"lorenz", "rossler_system"} THEN 3
    ELSE IF f = "pendulum_system" THEN 2 ELSE 1

\* the field f called with (t, st, *par)
Derivative(f, t, st, par) ==
    CASE f = "van_der_pol" -> van_der_pol(t, st, par[1])
      [] f = "lorenz" -> lorenz(t, st, par[1], par[2], par[3])
      [] f = "rossler_system" -> rossler_system(t, st, par[1], par[2], par[3])
      [] f = "hopf_system" -> hopf_system(t, st, par[1])
      [] OTHER -> pendulum_system(t, st, par[1], par[2])

\* a field that clears the first component of the list it was handed
ArgumentOverwritten(f, st) == [k \in 1..Len(st) |-> IF k = 1 THEN 0 ELSE st[k]]

\* the caller's state list after the call: the fields only unpack it
ArgumentAfter(f, st) == st

fieldRest == <<xs, ys, zs, detectorVars, henonVars, sceneVars, integVars,
               sweepVars, parVars, gatherVars, switchVars, rhoVars>>

\* one call of the field on the caller's (t, state, parameters)
FieldCall ==
    /\ fn \in FieldFunctions /\ pc = "call"
    /\ Len(derivs) < 2
    /\ derivs' = Append(derivs, Derivative(fn, t_arg, state, params))
    /\ state' = ArgumentAfter(fn, state)
    /\ UNCHANGED <<fn, pc, t_arg, params, fieldRest>>

\* both calls have returned
FieldDone ==
    /\ fn \in FieldFunctions /\ pc = "call"
    /\ Len(derivs) >= 2
    /\ pc' = "done"
    /\ UNCHANGED <<fn, fieldVars, fieldRest>>

FieldValues == {-1, 0, 2}
FieldParams == {1, 3}
FieldTimes == {0, 1}

InitField ==
    /\ fn \in FieldFunctions /\ pc = "call"
    /\ state \in [1..Dimension(fn) -> FieldValues]
    /\ params \in [1..ParamCount(fn) -> FieldParams]
    /\ t_arg \in FieldTimes
    /\ derivs = <<>>
    /\ xs = <<>> /\ ys = <<>> /\ zs = <<>>
    /\ section_axis = "y" /\ section_value = 0 /\ direction = "positive"
    /\ z_section = 0 /\ i = 0 /\ crossings = <<>> /\ return_map = <<>>
    /\ HenonIdle /\ SceneIdle /\ IntegIdle /\ SweepIdle /\ ParIdle
    /\ GatherIdle /\ SwitchIdle /\ RhoIdle

NextField ==
    \/ FieldCall
    \/ FieldDone

SpecField == InitField /\ [][NextField]_vars

-----------------------------------------------------------------------------
(* Properties of the vector fields *)

-----------------------------------------------------------------------------
(* Properties of henon_jacobian_eigenvalues *)

\* eig1, eig2 have just been computed at a numeric x
EigenvaluesComputed ==
    /\ fn = "HenonAttractorScene" /\ pc = "stability"
    /\ fx.kind = "num"
    /\ eig1.tr.kind = "num" /\ eig1.dc.kind = "num"
    /\ eig2.tr.kind = "num" /\ eig2.dc.kind = "num"

SEqual(u, v) == SSign(SAdd(u, SNeg(v))) = 0

\* eig1 + eig2 = c: the halves of tr add up to c and the two roots cancel
EigSumIs(c) ==
    /\ SEqual(SScale(Half, SAdd(eig1.tr.v, eig2.tr.v)), c)
    /\ SSign(eig1.dc.v) = 0 \/ (SEqual(eig1.dc.v, eig2.dc.v) /\ eig1.sg + eig2.sg = 0)

\* eig1 * eig2 = c: the square of the root is dc for real eigenvalues and
\* -dc for complex ones, and the terms with one root cancel
EigProductIs(c) ==
    LET rootSq == IF eig1.kind = "float" THEN 1 ELSE -1
    IN  /\ SEqual(eig1.dc.v, eig2.dc.v)
        /\ SEqual(SScale(Rat(1, 4),
                         SAdd(SMul(eig1.tr.v, eig2.tr.v),
                              SScale(RatOf(rootSq * eig1.sg * eig2.sg),
                                     eig1.dc.v))),
                  c)
        /\ \/ SSign(eig1.dc.v) = 0
           \/ SSign(SAdd(SScale(RatOf(eig2.sg), eig1.tr.v),
                         SScale(RatOf(eig1.sg), eig2.tr.v))) = 0

\* C22: the two values henon_jacobian_eigenvalues(x, a, b) returns add up to
\* the trace -2ax and multiply to the determinant -b, in the real branch and
\* in the complex branch.
C22_SumIsTraceProductIsDet ==
    EigenvaluesComputed =>
      /\ eig1.kind = eig2.kind
      /\ EigSumIs(SScale(RatMul(RatOf(-2), a), fx.v))
      /\ EigProductIs(SOf(RatNeg(b)))

\* a complex pair has been computed at a fixed point
C22_Witness ==
    /\ EigenvaluesComputed
    /\ eig1.kind = "complex" /\ SSign(eig1.dc.v) > 0
    /\ SSign(eig1.tr.v) # 0

-----------------------------------------------------------------------------
(* Properties of the retained point cloud *)

\* C23: every retained point after the first is the map applied to the
\* retained point before it, both coordinates taken from the old state:
\* xs[k+1] = 1 - a * xs[k]^2 + ys[k] and ys[k+1] = b * xs[k].
C23_CloudIsOrbitInOrder ==
    fn = "iterate_henon" =>
      /\ Len(xs) = Len(ys)
      /\ \A k \in 1..(Len(xs) - 1) :
           /\ xs[k + 1] = FAdd(FAdd(1, FNeg(FMul(a, FSquare(xs[k])))), ys[k])
           /\ ys[k + 1] = FMul(b, xs[k])

\* three finite points have been retained and b * x tells the old x from
\* the new one
C23_Witness ==
    /\ fn = "iterate_henon" /\ pc = "done"
    /\ Len(xs) = 3 /\ b = 1
    /\ \A k \in 1..3 : IsFinite(xs[k]) /\ IsFinite(ys[k])
    /\ xs[2] # xs[1] /\ xs[3] # xs[2]

-----------------------------------------------------------------------------
(* Properties of neighbouring intervals *)

\* the section coordinate and the threshold the running detector scans
ScanValues ==
    IF fn = "compute_poincare_crossings" THEN zs
    ELSE IF fn = "compute_rossler_poincare" THEN values
    ELSE ys
ScanThreshold ==
    IF fn = "compute_poincare_crossings" THEN z_section
    ELSE IF fn = "compute_rossler_poincare" THEN section_value
    ELSE 0
ScansUpward ==
    fn # "compute_rossler_poincare" \/ direction = "positive"
Detecting ==
    fn \in {"compute_poincare_crossings", "compute_rossler_poincare",
            "compute_vdp_poincare_map"}

\* C24: a scan never registers crossings on two adjacent intervals: after a
\* crossing between samples k-1 and k none is registered between k and k+1,
\* so an exact hit on the threshold is counted once, and between two
\* registered upward crossings some sample lies below the threshold.
C24_NoAdjacentCrossings ==
    Detecting =>
      /\ Len(crossings) = Cardinality(Qualifying)
      /\ \A k \in Qualifying : (k + 1) \notin Qualifying
      /\ ScansUpward =>
           \A j \in Qualifying : \A k \in Qualifying :
             j < k => \E m \in j..(k - 1) : At(ScanValues, m) < ScanThreshold

\* an exact hit on the later sample has been registered, the next interval
\* starts on the threshold, rises and registers nothing
C24_Witness ==
    /\ fn = "compute_poincare_crossings" /\ i = 3
    /\ SectionTest(1) /\ At(zs, 1) = z_section
    /\ At(zs, 2) > z_section
    /\ Len(crossings) = 1

-----------------------------------------------------------------------------
(* Properties of the interpolation fraction *)

\* the fraction c lies between the integers p and q, ends included
Between(c, p, q) ==
    /\ (IF p < q THEN p ELSE q) * c[2] <= c[1]
    /\ c[1] <= (IF p < q THEN q ELSE p) * c[2]

\* 0 < frac <= 1
ProperFraction(frac) == frac[1] > 0 /\ frac[1] <= frac[2]

\* the fraction the detector used on the interval k-1 .. k; the Van der Pol
\* detector computes none when its guard fails and takes the later sample,
\* which is the fraction 1
FracUsed(k) ==
    IF fn = "compute_poincare_crossings"
    THEN PoincareFrac(At(zs, k - 1), z_section, At(zs, k))
    ELSE IF fn = "compute_rossler_poincare"
    THEN RosslerFrac(At(values, k - 1), section_value, At(values, k))
    ELSE IF NonDegenerate(ys, k)
    THEN Rat(-At(ys, k - 1), At(ys, k) - At(ys, k - 1))
    ELSE RatOf(1)

\* C25: the fraction of every registered crossing satisfies 0 < frac <= 1
\* (or is the fallback), and every component of the crossing state lies
\* between the components of the two bracketing samples, ends included.
C25_NoExtrapolation ==
    JustRegistered =>
      LET c == Last(crossings)
          k == i - 1
      IN  /\ ProperFraction(FracUsed(k))
          /\ fn # "compute_vdp_poincare_map" =>
               /\ Between(c[1], At(xs, k - 1), At(xs, k))
               /\ Between(c[2], At(ys, k - 1), At(ys, k))
               /\ Between(c[3], At(zs, k - 1), At(zs, k))
          /\ fn = "compute_vdp_poincare_map" =>
               Between(c, At(xs, k - 1), At(xs, k))

\* a downward crossing from 3 to -3 through -1: the fraction is 2/3
C25_Witness ==
    /\ JustRegistered
    /\ fn = "compute_rossler_poincare" /\ direction = "negative"
    /\ section_value = -1 /\ FracUsed(i - 1) = Rat(2, 3)
    /\ At(xs, i - 2) # At(xs, i - 1)

-----------------------------------------------------------------------------
(* Properties of the division in compute_poincare_crossings *)

\* C26: compute_poincare_crossings divides only on an interval that passes
\* zs[i-1] < z_section <= zs[i], where the denominator zs[i] - zs[i-1] is
\* strictly positive, and the third component of every stored crossing is
\* z_section itself.
C26_DenominatorPositive ==
    fn = "compute_poincare_crossings" =>
      /\ \A k \in 1..(Len(zs) - 1) :
           PoincareTest(At(zs, k - 1), z_section, At(zs, k)) =>
             At(zs, k) - At(zs, k - 1) > 0
      /\ \A j \in 1..Len(crossings) : crossings[j][3] = RatOf(z_section)

\* a crossing registered on a step shorter than the epsilon of the other
\* detectors: from -1 to 0 through 0
C26_Witness ==
    /\ fn = "compute_poincare_crossings" /\ JustRegistered
    /\ At(zs, i - 1) - At(zs, i - 2) = 1
    /\ Last(crossings)[3] = RatOf(z_section)

-----------------------------------------------------------------------------
(* VanDerPolScene: gathering the return maps of five runs (lines 216-226) *)

\* the initial conditions of the loop of line 221, in tenths
GatherStarts == <<1, 5, 10, 20, 30>>

\* what integrate_van_der_pol may return after the initial point: pairs
\* <<x - x0, y>> of the later samples; the solver's output is not determined
\* by the source, so the model chooses among trajectories with 0..3 upward
\* crossings
GatherTails ==
    { <<>>,
      << <<1, -8>>, <<3, 8>> >>,
      << <<1, -8>>, <<3, 8>>, <<5, -8>>, <<7, 8>> >>,
      << <<1, -8>>, <<3, 8>>, <<5, -8>>, <<7, 8>>, <<9, -8>>, <<11, 8>> >> }

\* the samples of a run from (x0_start, 0)
GatherXs(x0_start, tail) ==
    <<x0_start>> \o [k \in 1..Len(tail) |-> x0_start + tail[k][1]]
GatherYs(tail) == <<0>> \o [k \in 1..Len(tail) |-> tail[k][2]]

\* the loop of lines 50-58 over the first k intervals
RECURSIVE VdpScan(_, _, _)
VdpScan(sx, sy, k) ==
    IF k = 0 THEN <<>>
    ELSE LET before == VdpScan(sx, sy, k - 1)
         IN  IF VdpTestOf(sx, sy, k)
             THEN Append(before, VdpCrossingOf(sx, sy, k))
             ELSE before

\* compute_vdp_poincare_map on given samples: crossings and return map
compute_vdp_poincare_map(sx, sy) ==
    LET cr == VdpScan(sx, sy, Len(sy) - 1)
    IN  [crossings |-> cr, return_map |-> ReturnMap(cr)]

\* pairs made over the combined crossing list
ExtendJoined(all_rm, all_cr, res) == ReturnMap(all_cr \o res.crossings)

\* line 226: all_return_map.extend(return_map_temp)
ExtendReturnMap(all_rm, all_cr, res) == all_rm \o res.return_map

gatherRest == <<xs, ys, zs, detectorVars, henonVars, sceneVars, integVars,
                sweepVars, parVars, fieldVars, switchVars, rhoVars>>

\* one iteration of the loop of lines 221-226
GatherRun ==
    /\ fn = "VanDerPolScene" /\ pc = "gather"
    /\ Len(runs) < Len(GatherStarts)
    /\ \E tail \in GatherTails :
         LET x0_start == GatherStarts[Len(runs) + 1]
             res == compute_vdp_poincare_map(GatherXs(x0_start, tail),
                                             GatherYs(tail))
         IN  /\ runs' = Append(runs, res.crossings)
             /\ all_crossings' = all_crossings \o res.crossings
             /\ all_return_map' =
                    ExtendReturnMap(all_return_map, all_crossings, res)
    /\ UNCHANGED <<fn, pc, gatherRest>>

\* the loop is exhausted
GatherEnd ==
    /\ fn = "VanDerPolScene" /\ pc = "gather"
    /\ Len(runs) = Len(GatherStarts)
    /\ pc' = "done"
    /\ UNCHANGED <<fn, gatherVars, gatherRest>>

InitGather ==
    /\ fn = "VanDerPolScene" /\ pc = "gather"
    /\ runs = <<>> /\ all_crossings = <<>> /\ all_return_map = <<>>
    /\ xs = <<>> /\ ys = <<>> /\ zs = <<>>
    /\ section_axis = "y" /\ section_value = 0 /\ direction = "positive"
    /\ z_section = 0 /\ i = 0 /\ crossings = <<>> /\ return_map = <<>>
    /\ HenonIdle /\ SceneIdle /\ IntegIdle /\ SweepIdle /\ ParIdle
    /\ FieldIdle /\ SwitchIdle /\ RhoIdle

NextGather ==
    \/ GatherRun
    \/ GatherEnd

SpecGather == InitGather /\ [][NextGather]_vars

\* number of crossings, and of pairs, contributed by the runs before run r
RECURSIVE CrossOffset(_)
CrossOffset(r) == IF r <= 1 THEN 0 ELSE CrossOffset(r - 1) + Len(runs[r - 1])
RECURSIVE PairOffset(_)
PairOffset(r) ==
    IF r <= 1 THEN 0
    ELSE PairOffset(r - 1)
         + (IF Len(runs[r - 1]) >= 1 THEN Len(runs[r - 1]) - 1 ELSE 0)

\* C27: the combined crossing list holds the crossings of the runs in order
\* (sum of k_r entries); the combined return map holds sum of max(k_r - 1, 0)
\* pairs, and the pairs of run r are exactly its consecutive crossings, so no
\* pair joins the last crossing of a run to the first of the next.
C27_PairsStayWithinRuns ==
    fn = "VanDerPolScene" =>
      /\ Len(all_crossings) = CrossOffset(Len(runs) + 1)
      /\ Len(all_return_map) = PairOffset(Len(runs) + 1)
      /\ \A r \in 1..Len(runs) :
           /\ \A j \in 1..Len(runs[r]) :
                all_crossings[CrossOffset(r) + j] = runs[r][j]
           /\ \A j \in 1..(Len(runs[r]) - 1) :
                all_return_map[PairOffset(r) + j] =
                    <<runs[r][j], runs[r][j + 1]>>

\* two runs with two crossings each have been gathered, then one with none
C27_Witness ==
    /\ fn = "VanDerPolScene" /\ pc = "done"
    /\ Len(runs[1]) = 2 /\ Len(runs[2]) = 2 /\ Len(runs[3]) = 0
    /\ Len(runs[5]) = 3
    /\ Len(all_return_map) < Len(all_crossings) - 1

-----------------------------------------------------------------------------
(* The complex branch of henon_jacobian_eigenvalues and the sign of b *)

\* C28: with b >= 0 the eigenvalues computed for a fixed point are both
\* real (the complex branch is not taken) and the label the scene gives the
\* fixed point is never 'spiral'.
C28_NonNegativeBNeverSpiral ==
    (fn = "HenonAttractorScene" /\ RatSign(b) >= 0) =>
      /\ pc = "stability" => (eig1.kind = "float" /\ eig2.kind = "float")
      /\ stab_str # "spiral"

-----------------------------------------------------------------------------
(* LorenzParticleScene: the wing-switch counter (lines 2058-2064, 2169-2196) *)

\* the samples of the pre-integrated trajectory (n_points in the scene) and
\* the range of time_tracker, in frames (total_time in the scene)
MaxTrajectory == 4
MaxFrames == 4

\* x values the dense output may hold; the run starts from x = 1
SwitchValues == {-1, 0, 1}

\* idx = int(t / total_time * (n_points - 1)) ; idx = np.clip(idx, 0, n_points - 1)
\* return trajectory_data[0][idx]
get_current_state(t) ==
    LET n == Len(trajectory_data)
        raw == (t * (n - 1)) \div MaxFrames
        idx == IF raw < 0 THEN 0 ELSE IF raw > n - 1 THEN n - 1 ELSE raw
    IN  At(trajectory_data, idx)

\* x = 0 taken for the right wing
WingSignZeroRight(xv) == IF xv >= 0 THEN 1 ELSE -1

\* current_sign = 1 if x > 0 else -1
WingSign(xv) == IF xv > 0 THEN 1 ELSE -1

switchRest == <<xs, ys, zs, detectorVars, henonVars, sceneVars, integVars,
                sweepVars, parVars, fieldVars, gatherVars, rhoVars>>

\* one frame of the play call of lines 2192-2197: the tracker moves towards
\* total_time (by an amount the renderer chooses), then count_switches runs
SwitchFrame ==
    /\ fn = "LorenzParticleScene" /\ pc \in {"start", "play"}
    /\ \E t \in time_tracker..MaxFrames :
         LET current_sign == WingSign(get_current_state(t))
         IN  /\ time_tracker' = t
             /\ IF current_sign # last_sign
                THEN /\ switch_count' = switch_count + 1
                     /\ last_sign' = current_sign
                ELSE UNCHANGED <<switch_count, last_sign>>
    /\ pc' = "play"
    /\ UNCHANGED <<fn, trajectory_data, switchRest>>

\* the animation has reached total_time
SwitchEnd ==
    /\ fn = "LorenzParticleScene" /\ pc = "play"
    /\ time_tracker = MaxFrames
    /\ pc' = "done"
    /\ UNCHANGED <<fn, switchVars, switchRest>>

InitSwitch ==
    /\ fn = "LorenzParticleScene" /\ pc = "start"
    /\ trajectory_data \in [1..MaxTrajectory -> SwitchValues]
    /\ trajectory_data[1] = 1
    /\ time_tracker = 0
    /\ last_sign = 1
    /\ switch_count = 0
    /\ xs = <<>> /\ ys = <<>> /\ zs = <<>>
    /\ section_axis = "y" /\ section_value = 0 /\ direction = "positive"
    /\ z_section = 0 /\ i = 0 /\ crossings = <<>> /\ return_map = <<>>
    /\ HenonIdle /\ SceneIdle /\ IntegIdle /\ SweepIdle /\ ParIdle
    /\ FieldIdle /\ GatherIdle /\ RhoIdle

NextSwitch ==
    \/ SwitchFrame
    \/ SwitchEnd

SpecSwitch == InitSwitch /\ [][NextSwitch]_vars

\* the wing of a sample: right (+1) only for x strictly positive
ObservedWing(xv) == IF xv > 0 THEN 1 ELSE -1

\* an update has run
Updated == pc \in {"play", "done"}

\* C29: before any update last_sign is +1 and the counter is 0; after an
\* update last_sign is the wing of the x observed by that update (x = 0 is
\* the left wing); an update raises the counter by one exactly when the wing
\* it observes differs from the stored one and leaves it alone otherwise,
\* so the counter never decreases.
C29_SwitchCounter ==
    /\ [](fn = "LorenzParticleScene" =>
            /\ ~Updated => (last_sign = 1 /\ switch_count = 0)
            /\ Updated => last_sign = ObservedWing(get_current_state(time_tracker)))
    /\ [][(fn = "LorenzParticleScene" /\ pc # "done" /\ pc' # "done") =>
            (switch_count' = switch_count
               + (IF ObservedWing(get_current_state(time_tracker')) # last_sign
                  THEN 1 ELSE 0))]_vars
    /\ [][(fn = "LorenzParticleScene") => (switch_count' >= switch_count)]_vars

\* an update has observed x = 0 from the right wing and counted a switch,
\* and a later one has counted the return
C29_Witness ==
    /\ fn = "LorenzParticleScene" /\ pc = "play"
    /\ At(trajectory_data, 1) = 0
    /\ time_tracker = MaxFrames
    /\ switch_count = 2 /\ last_sign = 1

-----------------------------------------------------------------------------
(* LorenzRhoGrowthScene: the regime label and the displayed equilibria      *)
(* (lines 1817-1840, 1876-1952); rho in hundredths                          *)

\* rho_tracker = ValueTracker(0.5)
RhoStart == 50
\* the thresholds 1 and 24.74 of get_regime_text and get_equilibria
RhoOne == 100
RhoCritical == 2474
\* the values the play calls animate the tracker to, in order
RhoTargets == <<99, 500, 1000, 1500, 2000, 2400, 2474, 2600, 2800>>

\* if rho < 1 ... elif rho < 24.74 ... else ...
get_regime_text(rho) ==
    IF rho < RhoOne THEN "Regime: Origin stable (no oscillation)"
    ELSE IF rho < RhoCritical THEN "Regime: Two stable fixed points"
    ELSE "Regime: STRANGE ATTRACTOR (chaos)"

\* the origin always; c_plus and c_minus if rho > 1
get_equilibria(rho) ==
    {"origin"} \cup (IF rho > RhoOne THEN {"c_plus", "c_minus"} ELSE {})

rhoRest == <<xs, ys, zs, section_axis, section_value, direction, z_section,
             crossings, return_map, henonVars, sceneVars, integVars,
             sweepVars, parVars, fieldVars, gatherVars, switchVars>>

\* one frame of a play call: the tracker moves towards the target of the
\* call by an amount the renderer chooses, then the two always_redraw
\* updaters rebuild the label and the dots
RhoFrame ==
    /\ fn = "LorenzRhoGrowthScene" /\ pc = "play"
    /\ i < Len(RhoTargets)
    /\ rho_tracker < At(RhoTargets, i)
    /\ \E v \in (rho_tracker + 1)..At(RhoTargets, i) :
         /\ rho_tracker' = v
         /\ regime_text' = get_regime_text(v)
         /\ equilibria' = get_equilibria(v)
    /\ UNCHANGED <<fn, pc, i, rhoRest>>

\* the play call has finished; the next one begins
RhoNextPlay ==
    /\ fn = "LorenzRhoGrowthScene" /\ pc = "play"
    /\ i < Len(RhoTargets)
    /\ rho_tracker = At(RhoTargets, i)
    /\ i' = i + 1
    /\ UNCHANGED <<fn, pc, rhoVars, rhoRest>>

RhoEnd ==
    /\ fn = "LorenzRhoGrowthScene" /\ pc = "play"
    /\ i >= Len(RhoTargets)
    /\ pc' = "done"
    /\ UNCHANGED <<fn, i, rhoVars, rhoRest>>

InitRho ==
    /\ fn = "LorenzRhoGrowthScene" /\ pc = "play"
    /\ rho_tracker = RhoStart
    /\ regime_text = get_regime_text(RhoStart)
    /\ equilibria = get_equilibria(RhoStart)
    /\ xs = <<>> /\ ys = <<>> /\ zs = <<>>
    /\ section_axis = "y" /\ section_value = 0 /\ direction = "positive"
    /\ z_section = 0 /\ i = 0 /\ crossings = <<>> /\ return_map = <<>>
    /\ HenonIdle /\ SceneIdle /\ IntegIdle /\ SweepIdle /\ ParIdle
    /\ FieldIdle /\ GatherIdle /\ SwitchIdle

NextRho ==
    \/ RhoFrame
    \/ RhoNextPlay
    \/ RhoEnd

SpecRho == InitRho /\ [][NextRho]_vars

\* C30: the label is 'Origin stable' exactly when the origin is the only
\* equilibrium displayed; the label 'Two stable fixed points' appears only
\* for 1 < rho < 24.74, and exactly when C+ and C- are displayed and the
\* label is not the chaotic one.
C30_LabelsMatchEquilibria ==
    fn = "LorenzRhoGrowthScene" =>
      /\ (regime_text = "Regime: Origin stable (no oscillation)")
            <=> (equilibria = {"origin"})
      /\ (regime_text = "Regime: Two stable fixed points")
            => (RhoOne < rho_tracker /\ rho_tracker < RhoCritical)
      /\ (regime_text = "Regime: Two stable fixed points")
            <=> (/\ {"c_plus", "c_minus"} \subseteq equilibria
                 /\ regime_text # "Regime: STRANGE ATTRACTOR (chaos)")

=============================================================================
